---- MODULE Spec2Model ----
(***************************************************************************)
(* The real-time console of the panel: backend/consumers.py,               *)
(* ServerConsoleConsumer.  One consumer object per WebSocket connection;   *)
(* the handlers of one consumer run one after the other, the handlers of   *)
(* different consumers and the log tasks interleave at their awaits, all   *)
(* on one event loop.  The channel layer (groups, one FIFO queue per       *)
(* channel), the container runtime and the log table are the environment.  *)
(***************************************************************************)
EXTENDS Integers, Sequences, FiniteSets, TLC

\* ---------------------------------------------------------------- bounds
MaxInputs == 4       \* events the clients and the runtime give in a run
QueueThreshold == 2  \* events an observer may leave waiting before it counts as slow
MaxTokens == 2       \* tokens of a line given to the classifier
MaxRows == 101       \* rows the log table of a server holds at the start

\* ------------------------------------------------------ program constants
TailLines == 100     \* container.logs(..., tail=100)
HistoryLimit == 100  \* get_recent_logs(100)

\* ------------------------------------------------------------ small sets
Conns == {"A", "B"}                 \* WebSocket connections (consumer objects)
Servers == {"7", "3"}               \* server ids that exist in the database
UrlIds == Servers \cup {"404"}      \* server_id of the URL route
Users == {"anon", "owner", "guest"} \* scope['user']
RawLines == {<<"up", " ">>, <<" ">>} \* what the container writes (tokens)
Commands == {<<"stop">>}            \* data['command']
\* tokens of the lines given to the classifier: markers in lower, mixed and
\* upper case, a word that holds a marker, a word that holds none, white space
Tokens == {"error", "Severe", "warn", "WARNING", "debug", "success", "done",
           "abandoned", "up", " "}
NoServer == "none"
Free == "free"

VARIABLES
    cont,        \* [Servers -> {"absent","running","exited"}] container runtime
    epoch,       \* [Servers -> Nat] number of starts of the container
    clog,        \* [Servers -> Seq([raw, ep])] the container's output so far
    stdin,       \* [Servers -> Seq(command id)] what was written to /minecraft/stdin
    hist,        \* [Servers -> Seq([level, message])] ServerLog rows, oldest first
    group,       \* [Servers -> SUBSET Conns] channel layer group console_<id>
    chan,        \* [Conns -> Seq(event)] channel layer queue of the consumer
    cstate,      \* [Conns -> {"new","open","rejected","closed","failed"}]
    server_id,   \* [Conns -> UrlIds \cup {NoServer}] self.server_id
    container,   \* [Conns -> BOOLEAN] self.container is set
    hpc,         \* [Conns -> handler position]
    hcmd,        \* [Conns -> the command the handler is executing]
    log_task,    \* [Conns -> position of the task self.log_task]
    cancelReq,   \* [Conns -> BOOLEAN] log_task.cancel() was called on a live task
    rpos,        \* [Conns -> Nat] lines the task's stream has yielded
    repoch,      \* [Conns -> Nat] container start the stream was opened in
    loop,        \* Free, or the connection whose task blocks the event loop
    out,         \* [Conns -> Seq(message)] what was sent on the WebSocket
    attachedAt,  \* [Conns -> Nat] lines the container had written at group_add
    attach,      \* [Conns -> {"pending","ok","notfound"}] outcome of start_log_stream
    peersAt,     \* [Conns -> SUBSET Conns] connections streaming at group_add
    nmsg,        \* [Conns -> Nat] messages received from the client
    histReqs,    \* [Conns -> Nat] get_history messages received
    submitted,   \* Seq([by, n, task]) commands in the order receive() took them
    bcast,       \* set of [by, n, command, to]: COMMAND events sent, and to whom
    inputs,      \* Nat: events the clients and the runtime have given
    \* ServerStatsConsumer, one object per connection to ws/stats/<id>/
    st_state,    \* [Conns -> {"new","open","rejected","closed"}]
    st_server,   \* [Conns -> UrlIds \cup {NoServer}] self.server_id
    st_user,     \* [Conns -> Users \cup {"-"}] scope['user'] of the connection
    st_group,    \* [UrlIds -> SUBSET Conns] channel layer group stats_<id>
    stats_task,  \* [Conns -> position of the task self.stats_task]
    st_cancel,   \* [Conns -> BOOLEAN] stats_task.cancel() was called on a live task
    st_out       \* [Conns -> Seq([data, from])] the sample last sent on the
                 \* WebSocket with the runtime's answer it came from; <<>>: none yet

statsVars == <<st_state, st_server, st_user, st_group, stats_task, st_cancel, st_out>>

vars == <<cont, epoch, clog, stdin, hist, group, chan, cstate, server_id,
          container, hpc, hcmd, log_task, cancelReq, rpos, repoch, loop, out,
          attachedAt, attach, peersAt, nmsg, histReqs, submitted, bcast, inputs,
          statsVars>>

\* --------------------------------------------------------------- helpers
Max(a, b) == IF a >= b THEN a ELSE b

RECURSIVE Reverse(_)
Reverse(q) == IF q = <<>> THEN <<>> ELSE Append(Reverse(Tail(q)), Head(q))

Count(q, x) == Cardinality({i \in 1..Len(q) : q[i] = x})

\* str.strip(): leading and trailing white space removed
RECURSIVE LStrip(_)
LStrip(q) == IF q # <<>> /\ Head(q) = " " THEN LStrip(Tail(q)) ELSE q

Strip(q) == Reverse(LStrip(Reverse(LStrip(q))))

RunningTask == {"logs", "next", "save", "send", "sleep"}
DoneTask == {"eof", "error", "cancelled"}

\* messages on the WebSocket and events on the channel layer share one shape
Msg(type, src, message, level, by, n) ==
    [type |-> type, src |-> src, message |-> message, level |-> level,
     by |-> by, n |-> n]

\* the lines of one to MaxTokens tokens
MarkerLines == UNION {[1..n -> Tokens] : n \in 1..MaxTokens}

\* nothing is connected, nothing was sent
InitConsumers ==
    /\ stdin = [s \in Servers |-> <<>>]
    /\ group = [s \in Servers |-> {}]
    /\ chan = [c \in Conns |-> <<>>]
    /\ cstate = [c \in Conns |-> "new"]
    /\ server_id = [c \in Conns |-> NoServer]
    /\ container = [c \in Conns |-> FALSE]
    /\ hpc = [c \in Conns |-> "idle"]
    /\ hcmd = [c \in Conns |-> <<>>]
    /\ log_task = [c \in Conns |-> "none"]
    /\ cancelReq = [c \in Conns |-> FALSE]
    /\ rpos = [c \in Conns |-> 0]
    /\ repoch = [c \in Conns |-> 0]
    /\ loop = Free
    /\ out = [c \in Conns |-> <<>>]
    /\ attachedAt = [c \in Conns |-> 0]
    /\ attach = [c \in Conns |-> "pending"]
    /\ peersAt = [c \in Conns |-> {}]
    /\ nmsg = [c \in Conns |-> 0]
    /\ histReqs = [c \in Conns |-> 0]
    /\ submitted = <<>>
    /\ bcast = {}
    /\ inputs = 0
    /\ st_state = [c \in Conns |-> "new"]
    /\ st_server = [c \in Conns |-> NoServer]
    /\ st_user = [c \in Conns |-> "-"]
    /\ st_group = [s \in UrlIds |-> {}]
    /\ stats_task = [c \in Conns |-> "none"]
    /\ st_cancel = [c \in Conns |-> FALSE]
    /\ st_out = [c \in Conns |-> <<>>]

Init ==
    /\ cont \in [Servers -> {"absent", "running"}]
    /\ epoch = [s \in Servers |-> IF cont[s] = "running" THEN 1 ELSE 0]
    /\ clog = [s \in Servers |-> <<>>]
    /\ hist = [s \in Servers |-> <<>>]
    /\ InitConsumers

\* server 7 runs and has written one line, any of MarkerLines
ClassifyInit ==
    /\ cont = [s \in Servers |-> IF s = "7" THEN "running" ELSE "absent"]
    /\ epoch = [s \in Servers |-> IF s = "7" THEN 1 ELSE 0]
    /\ \E line \in MarkerLines :
           clog = [s \in Servers |->
                      IF s = "7" THEN <<[raw |-> line, ep |-> 1]>> ELSE <<>>]
    /\ hist = [s \in Servers |-> <<>>]
    /\ InitConsumers

\* server 7 runs, silent, and its log table holds the rows of earlier
\* sessions, oldest first, none to MaxRows of them
HistoryInit ==
    /\ cont = [s \in Servers |-> IF s = "7" THEN "running" ELSE "absent"]
    /\ epoch = [s \in Servers |-> IF s = "7" THEN 1 ELSE 0]
    /\ clog = [s \in Servers |-> <<>>]
    /\ \E n \in 0..MaxRows :
           hist = [s \in Servers |->
                      IF s = "7"
                      THEN [i \in 1..n |-> [level |-> "INFO", message |-> <<ToString(i)>>]]
                      ELSE <<>>]
    /\ InitConsumers

\* ------------------------------------------------- pure parts of the code
\* str.upper() on a token
Upper(tok) ==
    CASE tok = "error" -> "ERROR"
      [] tok = "Severe" -> "SEVERE"
      [] tok = "warn" -> "WARN"
      [] tok = "debug" -> "DEBUG"
      [] tok = "success" -> "SUCCESS"
      [] tok = "done" -> "DONE"
      [] tok = "abandoned" -> "ABANDONED"
      [] tok = "up" -> "UP"
      [] OTHER -> tok

\* marker in token (substring): WARNING holds WARN, ABANDONED holds DONE
Contains(tok, marker) ==
    \/ tok = marker
    \/ tok = "WARNING" /\ marker = "WARN"
    \/ tok = "ABANDONED" /\ marker = "DONE"

HasMarker(log_upper, marker) ==
    \E i \in 1..Len(log_upper) : Contains(log_upper[i], marker)

\* (mutant) DEBUG is looked for before WARN
parse_log_level_debug_first(log_line) ==
    LET log_upper == [i \in 1..Len(log_line) |-> Upper(log_line[i])] IN
    IF HasMarker(log_upper, "ERROR") \/ HasMarker(log_upper, "SEVERE") THEN "ERROR"
    ELSE IF HasMarker(log_upper, "DEBUG") THEN "DEBUG"
    ELSE IF HasMarker(log_upper, "WARN") \/ HasMarker(log_upper, "WARNING") THEN "WARN"
    ELSE IF HasMarker(log_upper, "SUCCESS") \/ HasMarker(log_upper, "DONE") THEN "SUCCESS"
    ELSE "INFO"

parse_log_level(log_line) ==
    LET log_upper == [i \in 1..Len(log_line) |-> Upper(log_line[i])] IN
    IF HasMarker(log_upper, "ERROR") \/ HasMarker(log_upper, "SEVERE") THEN "ERROR"
    ELSE IF HasMarker(log_upper, "WARN") \/ HasMarker(log_upper, "WARNING") THEN "WARN"
    ELSE IF HasMarker(log_upper, "DEBUG") THEN "DEBUG"
    ELSE IF HasMarker(log_upper, "SUCCESS") \/ HasMarker(log_upper, "DONE") THEN "SUCCESS"
    ELSE "INFO"

\* Server.objects.get(id=...): the row, or None
get_server(s) == s \in Servers

is_authenticated(user) == user # "anon"

\* server.owner == user or user in server.owners.all()
check_access(s, user) == user = "owner"

\* containers.get(name) finds the container, running or exited
Resolvable(s) == cont[s] # "absent"

\* (mutant) no handle once the task of the connection has ended
get_container_draining(c) ==
    IF log_task[c] \in DoneTask THEN FALSE
    ELSE IF ~container[c] THEN Resolvable(server_id[c]) ELSE container[c]

\* get_container(): the cached handle, else a fresh resolution; FALSE is None
get_container(c) == IF ~container[c] THEN Resolvable(server_id[c]) ELSE container[c]

\* (mutant) the task is created without looking at the handle
CreatesTaskAlways(found) == TRUE

\* start_log_stream() creates the task when get_container() returned a handle
CreatesTask(found) == found

\* ServerLog rows of the server, order_by('-timestamp')[:limit]
\* (mutant) the rows come oldest first
get_recent_logs_oldest_first(s, limit) ==
    LET n == Len(hist[s]) IN SubSeq(hist[s], Max(1, n - limit + 1), n)

get_recent_logs(s, limit) ==
    LET n == Len(hist[s]) IN Reverse(SubSeq(hist[s], Max(1, n - limit + 1), n))

\* send_log_history(): the rows of get_recent_logs(100), one 'log' message each
HistoryMessages(c) ==
    LET logs == get_recent_logs(server_id[c], HistoryLimit) IN
    [i \in 1..Len(logs) |->
        Msg("log", "history", logs[i].message, logs[i].level, "-", 0)]

\* f'> {command}'
CommandMessage(command) == <<">", " ">> \o command

\* save_log(): one row more, or none when the insert raises (swallowed)
save_log(s, level, message, ok) ==
    IF ok THEN [hist EXCEPT ![s] = Append(@, [level |-> level, message |-> message])]
    ELSE hist

\* (mutant) the insert's exception leaves save_log()
save_log_propagates(ok) == ~ok

\* save_log() raises to its caller: never, its except logs the error
save_log_raises(ok) == FALSE

\* (mutant) the event jumps the queue of every member
group_send_newest_first(s, event) ==
    [o \in Conns |-> IF o \in group[s] THEN <<event>> \o chan[o] ELSE chan[o]]

\* (mutant) the event goes to every member but its sender
group_send_others(s, event) ==
    [o \in Conns |->
        IF o \in group[s] /\ o # event.by THEN Append(chan[o], event) ELSE chan[o]]

\* (mutant) the event goes to the members of every group
group_send_everyone(s, event) ==
    [o \in Conns |->
        IF \E x \in Servers : o \in group[x] THEN Append(chan[o], event) ELSE chan[o]]

\* channel_layer.group_send(): the event joins the queue of every member
group_send(s, event) ==
    [o \in Conns |-> IF o \in group[s] THEN Append(chan[o], event) ELSE chan[o]]

\* console_message(): the event as a 'log' message
console_message(event) ==
    Msg("log", event.src, event.message, event.level, event.by, event.n)

\* the consumer takes the oldest event of its channel
NextEvent(q) == Head(q)

Send(c, m) == [out EXCEPT ![c] = Append(@, m)]

ErrorMsg(text) == Msg("error", "self", <<text>>, "-", "-", 0)
InfoMsg(text) == Msg("info", "self", <<text>>, "-", "-", 0)

\* (mutant) the error goes to the group of the server
ErrorRecipientsGroup(c) == group[server_id[c]] \cup {c}

\* who gets the 'error' message of a handler: self.send, the connection itself
ErrorRecipients(c) == {c}

\* await self.send({'type': 'error', 'message': ...}) in an except clause
SendError(c, text) ==
    [o \in Conns |->
        IF o \in ErrorRecipients(c) THEN Append(out[o], ErrorMsg(text)) ELSE out[o]]

\* ------------------------------------------------------------ environment
\* one more event from a client, the runtime or the database, while the run
\* has any left
Input == inputs < MaxInputs /\ inputs' = inputs + 1

\* the container is created or started (views.py start / restart)
ContainerStart(s) ==
    /\ Input
    /\ cont[s] # "running"
    /\ cont' = [cont EXCEPT ![s] = "running"]
    /\ epoch' = [epoch EXCEPT ![s] = @ + 1]
    /\ UNCHANGED <<clog, stdin, hist, group, chan, cstate, server_id, container,
                   hpc, hcmd, log_task, cancelReq, rpos, repoch, loop, out,
                   attachedAt, attach, peersAt, nmsg, histReqs, submitted, bcast>>
    /\ UNCHANGED statsVars

\* the container stops (views.py stop, or the game exits)
ContainerStop(s) ==
    /\ Input
    /\ cont[s] = "running"
    /\ cont' = [cont EXCEPT ![s] = "exited"]
    /\ UNCHANGED <<epoch, clog, stdin, hist, group, chan, cstate, server_id,
                   container, hpc, hcmd, log_task, cancelReq, rpos, repoch, loop,
                   out, attachedAt, attach, peersAt, nmsg, histReqs, submitted, bcast>>
    /\ UNCHANGED statsVars

\* the running container writes a line
ContainerProduce(s, raw) ==
    /\ Input
    /\ cont[s] = "running"
    /\ clog' = [clog EXCEPT ![s] = Append(@, [raw |-> raw, ep |-> epoch[s]])]
    /\ UNCHANGED <<cont, epoch, stdin, hist, group, chan, cstate, server_id,
                   container, hpc, hcmd, log_task, cancelReq, rpos, repoch, loop,
                   out, attachedAt, attach, peersAt, nmsg, histReqs, submitted, bcast>>
    /\ UNCHANGED statsVars

\* ------------------------------------------------ ServerConsoleConsumer
\* connect(), up to accept(); start_log_stream() follows in the same handler
Connect(c, s, user) ==
    /\ Input
    /\ loop = Free
    /\ cstate[c] = "new"
    /\ server_id' = [server_id EXCEPT ![c] = s]
    /\ IF is_authenticated(user) /\ get_server(s) /\ check_access(s, user)
       THEN /\ group' = [group EXCEPT ![s] = @ \cup {c}]
            /\ cstate' = [cstate EXCEPT ![c] = "open"]
            /\ hpc' = [hpc EXCEPT ![c] = "start_log_stream"]
            /\ attachedAt' = [attachedAt EXCEPT ![c] = Len(clog[s])]
            /\ peersAt' = [peersAt EXCEPT ![c] =
                   {o \in group[s] : log_task[o] \in RunningTask /\ ~cancelReq[o]}]
       ELSE /\ cstate' = [cstate EXCEPT ![c] = "rejected"]
            /\ UNCHANGED <<group, hpc, attachedAt, peersAt>>
    /\ UNCHANGED <<cont, epoch, clog, stdin, hist, chan, container, hcmd,
                   log_task, cancelReq, rpos, repoch, loop, out, attach, nmsg,
                   histReqs, submitted, bcast>>
    /\ UNCHANGED statsVars

\* (mutant) connect() replays the history before it starts the stream
AttachMessagesReplay(c) == HistoryMessages(c)

\* what connect() sends between accept() and start_log_stream(): nothing
AttachMessages(c) == <<>>

\* start_log_stream()
StartLogStream(c) ==
    /\ loop = Free
    /\ hpc[c] = "start_log_stream"
    /\ LET found == get_container(c) IN
       /\ container' = [container EXCEPT ![c] = found]
       /\ IF CreatesTask(found)
          THEN /\ log_task' = [log_task EXCEPT ![c] = "logs"]
               /\ out' = [out EXCEPT ![c] = @ \o AttachMessages(c)]
          ELSE /\ out' = [out EXCEPT ![c] =
                            Append(@ \o AttachMessages(c),
                                   InfoMsg("Server is not running"))]
               /\ log_task' = log_task
       /\ attach' = [attach EXCEPT ![c] = IF found THEN "ok" ELSE "notfound"]
    /\ hpc' = [hpc EXCEPT ![c] = "idle"]
    /\ UNCHANGED <<cont, epoch, clog, stdin, hist, group, chan, cstate, server_id,
                   hcmd, cancelReq, rpos, repoch, loop, attachedAt, peersAt, nmsg,
                   histReqs, submitted, bcast, inputs>>
    /\ UNCHANGED statsVars

\* disconnect(): cancel the task, leave the group
Disconnect(c) ==
    /\ Input
    /\ loop = Free
    /\ cstate[c] = "open"
    /\ hpc[c] = "idle"
    /\ cancelReq' = [cancelReq EXCEPT ![c] = log_task[c] \in RunningTask]
    /\ group' = [group EXCEPT ![server_id[c]] = @ \ {c}]
    /\ cstate' = [cstate EXCEPT ![c] = "closed"]
    /\ chan' = [chan EXCEPT ![c] = <<>>]
    /\ UNCHANGED <<cont, epoch, clog, stdin, hist, server_id, container, hpc, hcmd,
                   log_task, rpos, repoch, loop, out, attachedAt, attach, peersAt,
                   nmsg, histReqs, submitted, bcast>>
    /\ UNCHANGED statsVars

\* the consumer handles one event of its channel: console_message()
Deliver(c) ==
    /\ loop = Free
    /\ cstate[c] = "open"
    /\ hpc[c] = "idle"
    /\ chan[c] # <<>>
    /\ out' = Send(c, console_message(NextEvent(chan[c])))
    /\ chan' = [chan EXCEPT ![c] = Tail(@)]
    /\ UNCHANGED <<cont, epoch, clog, stdin, hist, group, cstate, server_id,
                   container, hpc, hcmd, log_task, cancelReq, rpos, repoch, loop,
                   attachedAt, attach, peersAt, nmsg, histReqs, submitted, bcast, inputs>>
    /\ UNCHANGED statsVars

\* console_message() when self.send raises (the transport is gone): nothing
\* catches it, the consumer ends with the exception; disconnect() does not
\* run, so the channel stays in the group and the task is not cancelled
DeliverFails(c) ==
    /\ Input
    /\ loop = Free
    /\ cstate[c] = "open"
    /\ hpc[c] = "idle"
    /\ chan[c] # <<>>
    /\ cstate' = [cstate EXCEPT ![c] = "failed"]
    /\ chan' = [chan EXCEPT ![c] = Tail(@)]
    /\ UNCHANGED <<cont, epoch, clog, stdin, hist, group, server_id, container,
                   hpc, hcmd, log_task, cancelReq, rpos, repoch, loop, out,
                   attachedAt, attach, peersAt, nmsg, histReqs, submitted, bcast>>
    /\ UNCHANGED statsVars

\* -------------------------------------------------- receive() and below
\* (mutant) execute_command() starts the stream when the session has none
CommandStartsTaskIfNone(c, found) == found /\ log_task[c] = "none"

\* execute_command() uses the handle for exec_run only: it creates no task
CommandStartsTask(c, found) == FALSE

\* receive() of {type: command}: execute_command() up to the exec_run await
ReceiveCommand(c, command) ==
    /\ Input
    /\ loop = Free
    /\ cstate[c] = "open"
    /\ hpc[c] = "idle"
    /\ nmsg' = [nmsg EXCEPT ![c] = @ + 1]
    /\ submitted' = Append(submitted,
                         [by |-> c, n |-> nmsg[c] + 1, task |-> log_task[c]])
    /\ LET found == get_container(c) IN
       /\ container' = [container EXCEPT ![c] = found]
       /\ IF found
          THEN /\ hpc' = [hpc EXCEPT ![c] = "exec_run"]
               /\ hcmd' = [hcmd EXCEPT ![c] = command]
               /\ out' = out
          ELSE /\ out' = SendError(c, "Server container not found")
               /\ UNCHANGED <<hpc, hcmd>>
       /\ log_task' = IF CommandStartsTask(c, found)
                      THEN [log_task EXCEPT ![c] = "logs"]
                      ELSE log_task
    /\ UNCHANGED <<cont, epoch, clog, stdin, hist, group, chan, cstate, server_id,
                   cancelReq, rpos, repoch, loop, attachedAt, attach,
                   peersAt, histReqs, bcast>>
    /\ UNCHANGED statsVars

\* container.exec_run(...) on the handle: the runtime raises unless the
\* container runs
\* (mutant) exec_run never raises
ExecNeverRaises(s) == FALSE

ExecRaises(s) == cont[s] # "running"

\* container.exec_run("echo '<command>' > /minecraft/stdin") and its except
ExecRun(c) ==
    /\ loop = Free
    /\ hpc[c] = "exec_run"
    /\ IF ~ExecRaises(server_id[c])
       THEN /\ stdin' = [stdin EXCEPT ![server_id[c]] = Append(@, <<c, nmsg[c]>>)]
            /\ hpc' = [hpc EXCEPT ![c] = "save_log"]
            /\ UNCHANGED <<out, hcmd>>
       ELSE /\ out' = SendError(c, "Failed to execute command")
            /\ hpc' = [hpc EXCEPT ![c] = "idle"]
            /\ hcmd' = [hcmd EXCEPT ![c] = <<>>]
            /\ stdin' = stdin
    /\ UNCHANGED <<cont, epoch, clog, hist, group, chan, cstate, server_id,
                   container, log_task, cancelReq, rpos, repoch, loop, attachedAt,
                   attach, peersAt, nmsg, histReqs, submitted, bcast, inputs>>
    /\ UNCHANGED statsVars

\* save_log('COMMAND', '> <command>')
CommandSave(c, ok) ==
    /\ IF ok THEN inputs' = inputs ELSE Input
    /\ loop = Free
    /\ hpc[c] = "save_log"
    /\ hist' = save_log(server_id[c], "COMMAND", CommandMessage(hcmd[c]), ok)
    /\ IF save_log_raises(ok)
       THEN /\ out' = SendError(c, "Failed to execute command")
            /\ hpc' = [hpc EXCEPT ![c] = "idle"]
            /\ hcmd' = [hcmd EXCEPT ![c] = <<>>]
       ELSE /\ hpc' = [hpc EXCEPT ![c] = "group_send"]
            /\ UNCHANGED <<out, hcmd>>
    /\ UNCHANGED <<cont, epoch, clog, stdin, group, chan, cstate, server_id,
                   container, log_task, cancelReq, rpos, repoch, loop,
                   attachedAt, attach, peersAt, nmsg, histReqs, submitted, bcast>>
    /\ UNCHANGED statsVars

\* group_send of the COMMAND event
CommandBroadcast(c) ==
    /\ loop = Free
    /\ hpc[c] = "group_send"
    /\ chan' = group_send(server_id[c],
                 Msg("console_message", "command", CommandMessage(hcmd[c]),
                     "COMMAND", c, nmsg[c]))
    /\ bcast' = bcast \cup {[by |-> c, n |-> nmsg[c], command |-> hcmd[c],
                            to |-> group[server_id[c]]]}
    /\ hpc' = [hpc EXCEPT ![c] = "idle"]
    /\ hcmd' = [hcmd EXCEPT ![c] = <<>>]
    /\ UNCHANGED <<cont, epoch, clog, stdin, hist, group, cstate, server_id,
                   container, log_task, cancelReq, rpos, repoch, loop, out,
                   attachedAt, attach, peersAt, nmsg, histReqs, submitted, inputs>>
    /\ UNCHANGED statsVars

\* receive() of {type: get_history}
ReceiveGetHistory(c) ==
    /\ Input
    /\ loop = Free
    /\ cstate[c] = "open"
    /\ hpc[c] = "idle"
    /\ nmsg' = [nmsg EXCEPT ![c] = @ + 1]
    /\ histReqs' = [histReqs EXCEPT ![c] = @ + 1]
    /\ out' = [out EXCEPT ![c] = @ \o HistoryMessages(c)]
    /\ UNCHANGED <<cont, epoch, clog, stdin, hist, group, chan, cstate, server_id,
                   container, hpc, hcmd, log_task, cancelReq, rpos, repoch, loop,
                   attachedAt, attach, peersAt, submitted, bcast>>
    /\ UNCHANGED statsVars

\* receive() of {type: get_history} when get_recent_logs raises: the except
\* of send_log_history() logs the error, nothing is sent
ReceiveGetHistoryFails(c) ==
    /\ Input
    /\ loop = Free
    /\ cstate[c] = "open"
    /\ hpc[c] = "idle"
    /\ nmsg' = [nmsg EXCEPT ![c] = @ + 1]
    /\ histReqs' = [histReqs EXCEPT ![c] = @ + 1]
    /\ UNCHANGED <<cont, epoch, clog, stdin, hist, group, chan, cstate, server_id,
                   container, hpc, hcmd, log_task, cancelReq, rpos, repoch, loop,
                   out, attachedAt, attach, peersAt, submitted, bcast>>
    /\ UNCHANGED statsVars

\* receive() of text that is not JSON, or not a JSON object: json.loads or
\* data.get raises, the except of receive() sends the error to the client
ReceiveMalformed(c) ==
    /\ Input
    /\ loop = Free
    /\ cstate[c] = "open"
    /\ hpc[c] = "idle"
    /\ nmsg' = [nmsg EXCEPT ![c] = @ + 1]
    /\ out' = SendError(c, "Expecting value")
    /\ UNCHANGED <<cont, epoch, clog, stdin, hist, group, chan, cstate, server_id,
                   container, hpc, hcmd, log_task, cancelReq, rpos, repoch, loop,
                   attachedAt, attach, peersAt, histReqs, submitted, bcast>>
    /\ UNCHANGED statsVars

\* ------------------------------------------------- stream_logs(), the task
\* the stream of container.logs(stream=True, follow=True, tail=100)
StreamHasLine(c) ==
    /\ rpos[c] < Len(clog[server_id[c]])
    /\ clog[server_id[c]][rpos[c] + 1].ep <= repoch[c]

StreamEnded(c) ==
    /\ ~StreamHasLine(c)
    /\ \/ cont[server_id[c]] # "running"
       \/ epoch[server_id[c]] # repoch[c]

\* a task resumed after cancel() gets CancelledError at its await
Cancelled(c) == cancelReq[c]

TaskEnds(c, how) ==
    /\ log_task' = [log_task EXCEPT ![c] = how]
    /\ cancelReq' = [cancelReq EXCEPT ![c] = FALSE]

\* await to_thread(container.logs, ...) returns; the for statement calls
\* next(logs) on the event loop
StreamOpen(c) ==
    /\ loop = Free
    /\ log_task[c] = "logs"
    /\ IF Cancelled(c)
       THEN /\ TaskEnds(c, "cancelled")
            /\ UNCHANGED <<rpos, repoch, loop>>
       ELSE /\ rpos' = [rpos EXCEPT ![c] = Max(0, Len(clog[server_id[c]]) - TailLines)]
            /\ repoch' = [repoch EXCEPT ![c] = epoch[server_id[c]]]
            /\ log_task' = [log_task EXCEPT ![c] = "next"]
            /\ loop' = c
            /\ UNCHANGED cancelReq
    /\ UNCHANGED <<cont, epoch, clog, stdin, hist, group, chan, cstate, server_id,
                   container, hpc, hcmd, out, attachedAt, attach, peersAt, nmsg,
                   histReqs, submitted, bcast, inputs>>
    /\ UNCHANGED statsVars

\* (mutant) the line is broadcast without the await of save_log before it
FirstAwaitBroadcast(log_line) == IF log_line # <<>> THEN "send" ELSE "sleep"

\* the await the task reaches after next(logs): save_log for a line that is
\* not empty (after parse_log_level), else the sleep
FirstAwait(log_line) == IF log_line # <<>> THEN "save" ELSE "sleep"

\* next(logs) returns a line: decode, strip, and, for a line that is not
\* empty, parse_log_level and the await of save_log; for an empty one the sleep
StreamNext(c) ==
    /\ loop = c
    /\ log_task[c] = "next"
    /\ StreamHasLine(c)
    /\ rpos' = [rpos EXCEPT ![c] = @ + 1]
    /\ LET log_line == Strip(clog[server_id[c]][rpos[c] + 1].raw) IN
       log_task' = [log_task EXCEPT ![c] = FirstAwait(log_line)]
    /\ loop' = Free
    /\ UNCHANGED <<cont, epoch, clog, stdin, hist, group, chan, cstate, server_id,
                   container, hpc, hcmd, cancelReq, repoch, out, attachedAt, attach,
                   peersAt, nmsg, histReqs, submitted, bcast, inputs>>
    /\ UNCHANGED statsVars

\* next(logs) raises StopIteration: the container stopped
StreamEof(c) ==
    /\ loop = c
    /\ log_task[c] = "next"
    /\ StreamEnded(c)
    /\ TaskEnds(c, "eof")
    /\ loop' = Free
    /\ UNCHANGED <<cont, epoch, clog, stdin, hist, group, chan, cstate, server_id,
                   container, hpc, hcmd, rpos, repoch, out, attachedAt, attach,
                   peersAt, nmsg, histReqs, submitted, bcast, inputs>>
    /\ UNCHANGED statsVars

\* next(logs) raises (the connection to the runtime broke): except Exception
StreamRaises(c) ==
    /\ Input
    /\ loop = c
    /\ log_task[c] = "next"
    /\ TaskEnds(c, "error")
    /\ loop' = Free
    /\ UNCHANGED <<cont, epoch, clog, stdin, hist, group, chan, cstate, server_id,
                   container, hpc, hcmd, rpos, repoch, out, attachedAt, attach,
                   peersAt, nmsg, histReqs, submitted, bcast>>
    /\ UNCHANGED statsVars

\* the line the task is handling
TaskLine(c) == Strip(clog[server_id[c]][rpos[c]].raw)

\* await save_log(log_level, log_line) returns; the write ran in a thread, so a
\* cancelled task may leave the row behind
StreamSave(c, ok) ==
    /\ IF ok THEN inputs' = inputs ELSE Input
    /\ loop = Free
    /\ log_task[c] = "save"
    /\ hist' = save_log(server_id[c], parse_log_level(TaskLine(c)), TaskLine(c), ok)
    /\ IF Cancelled(c)
       THEN TaskEnds(c, "cancelled")
       ELSE IF save_log_raises(ok)
       THEN TaskEnds(c, "error")
       ELSE /\ log_task' = [log_task EXCEPT ![c] = "send"]
            /\ UNCHANGED cancelReq
    /\ UNCHANGED <<cont, epoch, clog, stdin, group, chan, cstate, server_id,
                   container, hpc, hcmd, rpos, repoch, loop, out, attachedAt, attach,
                   peersAt, nmsg, histReqs, submitted, bcast>>
    /\ UNCHANGED statsVars

\* group_send of the line, then the await of sleep(0.01)
StreamBroadcast(c) ==
    /\ loop = Free
    /\ log_task[c] = "send"
    /\ IF Cancelled(c)
       THEN /\ TaskEnds(c, "cancelled")
            /\ chan' = chan
       ELSE /\ chan' = group_send(server_id[c],
                         Msg("console_message", "reader", TaskLine(c),
                             parse_log_level(TaskLine(c)), c, rpos[c]))
            /\ log_task' = [log_task EXCEPT ![c] = "sleep"]
            /\ UNCHANGED cancelReq
    /\ UNCHANGED <<cont, epoch, clog, stdin, hist, group, cstate, server_id,
                   container, hpc, hcmd, rpos, repoch, loop, out, attachedAt, attach,
                   peersAt, nmsg, histReqs, submitted, bcast, inputs>>
    /\ UNCHANGED statsVars

\* sleep(0.01) is over: the for statement calls next(logs) on the event loop
StreamSleep(c) ==
    /\ loop = Free
    /\ log_task[c] = "sleep"
    /\ IF Cancelled(c)
       THEN /\ TaskEnds(c, "cancelled")
            /\ loop' = loop
       ELSE /\ log_task' = [log_task EXCEPT ![c] = "next"]
            /\ loop' = c
            /\ UNCHANGED cancelReq
    /\ UNCHANGED <<cont, epoch, clog, stdin, hist, group, chan, cstate, server_id,
                   container, hpc, hcmd, rpos, repoch, out, attachedAt, attach,
                   peersAt, nmsg, histReqs, submitted, bcast, inputs>>
    /\ UNCHANGED statsVars

\* ------------------------------------------------- ServerStatsConsumer
\* what the runtime answers to one sampling: the step that raises, if any
\* ("from_env": docker.from_env, "stats": container.stats, "missing": a counter
\* field is not in the answer), and the counters of container.stats
Replies ==
    [fail : {"from_env", "stats", "missing"}, total : {0}, pretotal : {0},
     system : {0}, presystem : {0}, usage : {0}, limit : {0}]
    \cup
    [fail : {"none"}, total : {100, 200, 300}, pretotal : {200},
     system : {1000, 1500, 2000}, presystem : {1500},
     usage : {204800}, limit : {0, 409600}]

\* round(n / d, 0) for d > 0, halves to the even neighbour; the samples carry
\* their numbers in hundredths, so round(x, 2) is RoundDiv on hundredths
RoundDiv(n, d) ==
    LET q == n \div d
        r == n % d
    IN  IF 2 * r < d THEN q
        ELSE IF 2 * r > d THEN q + 1
        ELSE IF q % 2 = 0 THEN q ELSE q + 1

\* (mutant) the division is made whatever the system delta
cpu_percent_unguarded(stats) ==
    LET cpu_delta == stats.total - stats.pretotal
        system_delta == stats.system - stats.presystem
    IN  IF system_delta = 0 THEN [raised |-> TRUE, value |-> 0]
        ELSE [raised |-> FALSE,
              value |-> IF system_delta > 0
                        THEN RoundDiv(cpu_delta * 10000, system_delta)
                        ELSE -RoundDiv(cpu_delta * 10000, -system_delta)]

\* (cpu_delta / system_delta) * 100.0 if system_delta > 0 else 0, rounded to
\* two places; raised: the expression raises ZeroDivisionError
cpu_percent(stats) ==
    LET cpu_delta == stats.total - stats.pretotal
        system_delta == stats.system - stats.presystem
    IN  [raised |-> FALSE,
         value |-> IF system_delta > 0
                   THEN RoundDiv(cpu_delta * 10000, system_delta)
                   ELSE 0]

\* the dict of the except clause
OfflineSample ==
    [cpu_percent |-> 0, memory_mb |-> 0, memory_limit_mb |-> 0,
     memory_percent |-> 0, online |-> FALSE]

\* containers.get("minecraft_server_<id>") finds the container
StatsContainerFound(s) == s \in Servers /\ cont[s] # "absent"

\* (mutant) the except clause keeps the CPU figure computed before the
\* memory arithmetic raised
get_server_stats_partial(s, stats) ==
    IF stats.fail # "none" \/ ~StatsContainerFound(s) \/ cpu_percent(stats).raised
    THEN OfflineSample
    ELSE IF stats.limit = 0
    THEN [OfflineSample EXCEPT !.cpu_percent = cpu_percent(stats).value]
    ELSE [cpu_percent |-> cpu_percent(stats).value,
          memory_mb |-> RoundDiv(stats.usage * 100, 1024 * 1024),
          memory_limit_mb |-> RoundDiv(stats.limit * 100, 1024 * 1024),
          memory_percent |-> RoundDiv(stats.usage * 10000, stats.limit),
          online |-> TRUE]

\* (mutant) a memory limit of 0 gives a memory_percent of 0, nothing raises
get_server_stats_unchecked_limit(s, stats) ==
    IF \/ stats.fail # "none"
       \/ ~StatsContainerFound(s)
       \/ cpu_percent(stats).raised
    THEN OfflineSample
    ELSE [cpu_percent |-> cpu_percent(stats).value,
          memory_mb |-> RoundDiv(stats.usage * 100, 1024 * 1024),
          memory_limit_mb |-> RoundDiv(stats.limit * 100, 1024 * 1024),
          memory_percent |-> IF stats.limit = 0 THEN 0
                             ELSE RoundDiv(stats.usage * 10000, stats.limit),
          online |-> TRUE]

\* get_server_stats(): the sample, or the all-zero one when any step raises
\* (memory_usage / memory_limit raises for a limit of 0)
get_server_stats(s, stats) ==
    IF \/ stats.fail # "none"
       \/ ~StatsContainerFound(s)
       \/ cpu_percent(stats).raised
       \/ stats.limit = 0
    THEN OfflineSample
    ELSE [cpu_percent |-> cpu_percent(stats).value,
          memory_mb |-> RoundDiv(stats.usage * 100, 1024 * 1024),
          memory_limit_mb |-> RoundDiv(stats.limit * 100, 1024 * 1024),
          memory_percent |-> RoundDiv(stats.usage * 10000, stats.limit),
          online |-> TRUE]

\* (mutant) a failing step of the sampling raises out of get_server_stats()
get_server_stats_propagates(s, stats) ==
    stats.fail # "none" \/ ~StatsContainerFound(s)

\* get_server_stats() raises to send_stats_loop(): never, its except Exception
\* returns the offline sample (the loop's own except would end the task)
get_server_stats_raises(s, stats) == FALSE

consoleVars == <<clog, stdin, hist, group, chan, cstate, server_id, container,
                 hpc, hcmd, log_task, cancelReq, rpos, repoch, loop, out,
                 attachedAt, attach, peersAt, nmsg, histReqs, submitted, bcast>>

\* ServerStatsConsumer.connect()
StatsConnect(c, s, user) ==
    /\ Input
    /\ loop = Free
    /\ st_state[c] = "new"
    /\ st_server' = [st_server EXCEPT ![c] = s]
    /\ st_user' = [st_user EXCEPT ![c] = user]
    /\ IF is_authenticated(user)
       THEN /\ st_group' = [st_group EXCEPT ![s] = @ \cup {c}]
            /\ st_state' = [st_state EXCEPT ![c] = "open"]
            /\ stats_task' = [stats_task EXCEPT ![c] = "fetch"]
       ELSE /\ st_state' = [st_state EXCEPT ![c] = "rejected"]
            /\ UNCHANGED <<st_group, stats_task>>
    /\ UNCHANGED <<st_cancel, st_out, cont, epoch>>
    /\ UNCHANGED consoleVars

\* ServerStatsConsumer.disconnect()
StatsDisconnect(c) ==
    /\ Input
    /\ loop = Free
    /\ st_state[c] = "open"
    /\ st_cancel' = [st_cancel EXCEPT ![c] = stats_task[c] \in {"fetch", "sleep"}]
    /\ st_group' = [st_group EXCEPT ![st_server[c]] = @ \ {c}]
    /\ st_state' = [st_state EXCEPT ![c] = "closed"]
    /\ UNCHANGED <<st_server, st_user, stats_task, st_out, cont, epoch>>
    /\ UNCHANGED consoleVars

\* send_stats_loop(): get_server_stats() returns and the sample is sent; the
\* task then sleeps. A cancelled task ends at its await.
StatsFetch(c, stats) ==
    /\ loop = Free
    /\ stats_task[c] = "fetch"
    /\ IF st_cancel[c]
       THEN /\ stats_task' = [stats_task EXCEPT ![c] = "cancelled"]
            /\ st_cancel' = [st_cancel EXCEPT ![c] = FALSE]
            /\ UNCHANGED <<st_out, inputs>>
       ELSE IF get_server_stats_raises(st_server[c], stats)
       THEN /\ Input
            /\ stats_task' = [stats_task EXCEPT ![c] = "error"]
            /\ UNCHANGED <<st_out, st_cancel>>
       ELSE /\ Input
            /\ st_out' = [st_out EXCEPT ![c] =
                   <<[data |-> get_server_stats(st_server[c], stats),
                      from |-> stats]>>]
            /\ stats_task' = [stats_task EXCEPT ![c] = "sleep"]
            /\ st_cancel' = st_cancel
    /\ UNCHANGED <<st_state, st_server, st_user, st_group, cont, epoch>>
    /\ UNCHANGED consoleVars

\* sleep(2) is over: the next round of the loop
StatsTick(c) ==
    /\ loop = Free
    /\ stats_task[c] = "sleep"
    /\ IF st_cancel[c]
       THEN /\ stats_task' = [stats_task EXCEPT ![c] = "cancelled"]
            /\ st_cancel' = [st_cancel EXCEPT ![c] = FALSE]
       ELSE /\ stats_task' = [stats_task EXCEPT ![c] = "fetch"]
            /\ st_cancel' = st_cancel
    /\ UNCHANGED <<st_state, st_server, st_user, st_group, st_out, cont, epoch,
                   inputs>>
    /\ UNCHANGED consoleVars

\* ------------------------------------------------------- specifications
Environment ==
    \E s \in Servers :
        \/ ContainerStart(s)
        \/ ContainerStop(s)
        \/ \E raw \in RawLines : ContainerProduce(s, raw)
        \/ \E c \in Conns : server_id[c] = s /\ StreamRaises(c)
        \/ \E c \in Conns : server_id[c] = s /\ DeliverFails(c)

Client ==
    \E c \in Conns :
        \/ \E s \in UrlIds, user \in Users : Connect(c, s, user)
        \/ Disconnect(c)
        \/ \E command \in Commands : ReceiveCommand(c, command)
        \/ ReceiveGetHistory(c)
        \/ ReceiveGetHistoryFails(c)
        \/ ReceiveMalformed(c)

Handler ==
    \E c \in Conns :
        \/ StartLogStream(c)
        \/ Deliver(c)
        \/ ExecRun(c)
        \/ \E ok \in BOOLEAN : CommandSave(c, ok)
        \/ CommandBroadcast(c)

Task ==
    \E c \in Conns :
        \/ StreamOpen(c)
        \/ StreamNext(c)
        \/ StreamEof(c)
        \/ \E ok \in BOOLEAN : StreamSave(c, ok)
        \/ StreamBroadcast(c)
        \/ StreamSleep(c)

Next == Environment \/ Client \/ Handler \/ Task

Spec == Init /\ [][Next]_vars

\* the event loop runs every handler and task that is ready
FairSpec == Spec /\ WF_vars(Handler \/ Task)

StatsEnvironment ==
    \E s \in Servers : ContainerStart(s) \/ ContainerStop(s)

StatsClient ==
    \E c \in Conns :
        \/ \E s \in UrlIds, user \in Users : StatsConnect(c, s, user)
        \/ StatsDisconnect(c)

StatsTask ==
    \E c \in Conns :
        \/ \E stats \in Replies : StatsFetch(c, stats)
        \/ StatsTick(c)

StatsNext == StatsEnvironment \/ StatsClient \/ StatsTask

\* the stats consumers alone, no console connection
StatsSpec == Init /\ [][StatsNext]_vars

\* one observer of server 7 streams the line the container has written
ClassifyNext ==
    \/ Connect("A", "7", "owner")
    \/ StartLogStream("A")
    \/ StreamOpen("A")
    \/ StreamNext("A")
    \/ StreamSave("A", TRUE)
    \/ StreamBroadcast("A")
    \/ StreamSleep("A")
    \/ Deliver("A")

ClassifySpec == ClassifyInit /\ [][ClassifyNext]_vars

\* a console observer of server 7 and a stats connection, on the one event loop
SharedLoopTasks ==
    \/ StartLogStream("A")
    \/ StreamOpen("A")
    \/ StreamNext("A")
    \/ StreamSave("A", TRUE)
    \/ StreamBroadcast("A")
    \/ StreamSleep("A")
    \/ Deliver("A")
    \/ \E stats \in Replies : StatsFetch("B", stats)
    \/ StatsTick("B")

SharedLoopNext ==
    \/ Connect("A", "7", "owner")
    \/ \E raw \in RawLines : ContainerProduce("7", raw)
    \/ StatsConnect("B", "7", "owner")
    \/ StatsDisconnect("B")
    \/ SharedLoopTasks

\* the event loop runs every handler and task that is ready
SharedLoopSpec == Init /\ [][SharedLoopNext]_vars /\ WF_vars(SharedLoopTasks)

\* the observers of server 7 ask for the history
HistoryNext ==
    \E c \in Conns :
        \/ Connect(c, "7", "owner")
        \/ StartLogStream(c)
        \/ ReceiveGetHistory(c)
        \/ ReceiveGetHistoryFails(c)

HistorySpec == HistoryInit /\ [][HistoryNext]_vars

\* ------------------------------------------------------------ the claims
IsLive(m) == m.type = "log" /\ m.src \in {"reader", "command"}
IsHistory(m) == m.type = "log" /\ m.src = "history"
LiveIdx(c) == {i \in 1..Len(out[c]) : IsLive(out[c][i])}
Streaming(c) == log_task[c] \in RunningTask /\ ~cancelReq[c]
ReadersOf(s) == {c \in Conns : server_id[c] = s /\ Streaming(c)}

\* C1: for every server, at most one log task is running, whatever the
\* interleaving of connects and disconnects.
AtMostOneReaderPerServer ==
    \A s \in Servers : Cardinality(ReadersOf(s)) <= 1

\* C2: two observers that both received two live events received them in the
\* same relative order.
SameRelativeOrder ==
    \A a, b \in Conns :
        \A i, j \in LiveIdx(a) :
            \A k, l \in LiveIdx(b) :
                (i < j /\ out[a][i] = out[b][k] /\ out[a][j] = out[b][l]) => k < l

\* C2 witness: A and B both received the same two live events.
BothReceivedTwoEvents ==
    \E i, j \in LiveIdx("A") :
        \E k, l \in LiveIdx("B") :
            i < j /\ out["A"][i] = out["B"][k] /\ out["A"][j] = out["B"][l]

\* C3: when B attaches to a server that is streaming to A, the live events
\* pushed by B's task carry only lines the container wrote after B attached.
OnlyLinesAfterAttach ==
    \A b \in Conns :
        peersAt[b] # {} =>
            \A c \in Conns :
                \A i \in 1..Len(out[c]) :
                    (out[c][i].src = "reader" /\ out[c][i].by = b)
                        => out[c][i].n > attachedAt[b]

CommandEvent(b) ==
    Msg("console_message", "command", CommandMessage(b.command), "COMMAND", b.by, b.n)

CommandLog(b) ==
    Msg("log", "command", CommandMessage(b.command), "COMMAND", b.by, b.n)

HandlerDone(c, n) == nmsg[c] > n \/ hpc[c] = "idle"

\* C5: a command written to the container's input is broadcast once its
\* handler is through, and every observer in the group at the broadcast that
\* is still attached gets the '> command' COMMAND message exactly once.
CommandDeliveredOnce ==
    /\ \A s \in Servers :
           \A i \in 1..Len(stdin[s]) :
               HandlerDone(stdin[s][i][1], stdin[s][i][2]) =>
                   \E b \in bcast : b.by = stdin[s][i][1] /\ b.n = stdin[s][i][2]
    /\ \A b \in bcast :
           \A o \in b.to :
               cstate[o] = "open" =>
                   Count(out[o], CommandLog(b))
                     + Count(chan[o], CommandEvent(b)) = 1

\* C5 witness: a command was broadcast to both observers and both got it.
CommandReceivedByAll ==
    \E b \in bcast :
        /\ b.to = Conns
        /\ \A o \in Conns : Count(out[o], CommandLog(b)) = 1

Pos(q, x) == IF \E i \in 1..Len(q) : q[i] = x
             THEN CHOOSE i \in 1..Len(q) : q[i] = x ELSE 0

CommandPos(o, by, n) ==
    IF \E i \in 1..Len(out[o]) :
           out[o][i].src = "command" /\ out[o][i].by = by /\ out[o][i].n = n
    THEN CHOOSE i \in 1..Len(out[o]) :
           out[o][i].src = "command" /\ out[o][i].by = by /\ out[o][i].n = n
    ELSE 0

\* C6: of two commands for one server, the one receive() took first is
\* written to the container's input first and broadcast first.
CommandsInSubmissionOrder ==
    \A i, j \in 1..Len(submitted) :
        (i < j /\ server_id[submitted[i].by] = server_id[submitted[j].by]) =>
            LET s == server_id[submitted[i].by]
                k1 == <<submitted[i].by, submitted[i].n>>
                k2 == <<submitted[j].by, submitted[j].n>>
            IN  /\ (Pos(stdin[s], k1) > 0 /\ Pos(stdin[s], k2) > 0)
                       => Pos(stdin[s], k1) < Pos(stdin[s], k2)
                /\ \A o \in Conns :
                       (CommandPos(o, k1[1], k1[2]) > 0 /\ CommandPos(o, k2[1], k2[2]) > 0)
                           => CommandPos(o, k1[1], k1[2]) < CommandPos(o, k2[1], k2[2])

\* C7: an attach that finds no container sends one 'Server is not running'
\* info message and creates no task, then or later.
NoTaskWhenNotRunning ==
    \A c \in Conns :
        attach[c] = "notfound" =>
            /\ Count(out[c], InfoMsg("Server is not running")) = 1
            /\ log_task[c] = "none"

\* C7 witness: the attach found no container, and the container runs since.
NotRunningAtAttach ==
    \E c \in Conns :
        /\ attach[c] = "notfound"
        /\ cstate[c] = "open"
        /\ cont[server_id[c]] = "running"

Written(k) == \E s \in Servers : \E i \in 1..Len(stdin[s]) : stdin[s][i] = <<k.by, k.n>>
Broadcast(k) == \E b \in bcast : b.by = k.by /\ b.n = k.n

LastIsError(c) ==
    /\ Len(out'[c]) = Len(out[c]) + 1
    /\ out'[c][Len(out'[c])].type = "error"

IsTerminal(m) == m.type \in {"error", "info"}

\* C9: when the task ends at the end of the stream or on an exception, every
\* attached observer gets one terminal message and is detached.
ObserversClosedOnReaderEnd ==
    \A c \in Conns :
        (log_task[c] \in {"eof", "error"} /\ cstate[c] = "open")
            ~> (cstate[c] = "closed" /\ Cardinality({i \in 1..Len(out[c]) : IsTerminal(out[c][i])}) = 1)

\* C10: once a server has no observer left, a cancelled task reads and
\* broadcasts no further line, and in the end no task of the server runs.
ReaderStopsAfterLastDetach ==
    /\ [][\A c \in Conns :
              cancelReq[c] =>
                  /\ rpos'[c] = rpos[c]
                  /\ \A o \in Conns :
                         Len(chan'[o]) > Len(chan[o]) =>
                             ~(chan'[o][Len(chan'[o])].src = "reader"
                                 /\ chan'[o][Len(chan'[o])].by = c)
         ]_vars
    /\ \A s \in Servers :
           (group[s] = {})
               ~> (group[s] # {} \/ \A c \in Conns :
                                       server_id[c] = s => log_task[c] \notin RunningTask)

\* C11: an observer whose push failed is detached: it leaves the group of
\* its server and its task is stopped, while the event reaches the others
\* and the task that sent it runs on.
FailedObserverDetached ==
    \A c \in Conns :
        cstate[c] = "failed" =>
            /\ c \notin group[server_id[c]]
            /\ log_task[c] \notin RunningTask \/ cancelReq[c]

\* C12: an observer's queue is bounded: one that leaves more than the
\* threshold of events waiting is detached from the group, and no event is
\* withheld from an observer that stays attached.
SlowObserverForceDetached ==
    \A c \in Conns :
        Len(chan[c]) > QueueThreshold => c \notin group[server_id[c]]

LineEvent(c) ==
    Msg("console_message", "reader", TaskLine(c), parse_log_level(TaskLine(c)),
        c, rpos[c])

\* C13: a failed write of the log table is not surfaced and stops nothing:
\* the step of the failed write sends no message and the task, or the
\* command's handler, goes on to its broadcast, which reaches every member
\* of the group.
PersistenceFailureNotSurfaced ==
    [][\A c \in Conns :
          /\ (log_task[c] = "save" /\ log_task'[c] # "save" /\ hist' = hist) =>
                 /\ out' = out /\ chan' = chan
                 /\ cancelReq[c] \/ log_task'[c] = "send"
          /\ (log_task[c] = "send" /\ log_task'[c] # "send" /\ ~cancelReq[c]) =>
                 /\ log_task'[c] = "sleep"
                 /\ \A o \in group[server_id[c]] :
                        chan'[o] = Append(chan[o], LineEvent(c))
          /\ (hpc[c] = "save_log" /\ hpc'[c] # "save_log" /\ hist' = hist) =>
                 /\ out' = out /\ chan' = chan
                 /\ hpc'[c] = "group_send"
          /\ (hpc[c] = "group_send" /\ hpc'[c] # "group_send") =>
                 \A o \in group[server_id[c]] :
                     /\ Len(chan'[o]) = Len(chan[o]) + 1
                     /\ chan'[o][Len(chan'[o])].src = "command"
      ]_vars

\* C13 witness: an observer received a live event of a server whose log
\* table has no row: the write of that event failed.
WriteFailedEventDelivered ==
    \E c \in Conns :
        /\ cstate[c] = "open"
        /\ LiveIdx(c) # {}
        /\ hist[server_id[c]] = <<>>

WaitsForLine(c) ==
    log_task[c] = "next" /\ ~StreamHasLine(c) /\ ~StreamEnded(c)

\* C14: while a task waits for the next line of its container, the handlers
\* and tasks of the other connections that are ready can take their step.
HandlersRunWhileReaderWaits ==
    \A c \in Conns :
        WaitsForLine(c) =>
            \A o \in Conns \ {c} :
                /\ hpc[o] = "start_log_stream" => ENABLED StartLogStream(o)
                /\ hpc[o] = "exec_run" => ENABLED ExecRun(o)
                /\ hpc[o] = "group_send" => ENABLED CommandBroadcast(o)
                /\ (cstate[o] = "open" /\ hpc[o] = "idle" /\ chan[o] # <<>>)
                       => ENABLED Deliver(o)
                /\ log_task[o] \in {"logs", "send", "sleep"} =>
                       ENABLED (StreamOpen(o) \/ StreamBroadcast(o) \/ StreamSleep(o))

GotError(c) ==
    /\ Len(out'[c]) > Len(out[c])
    /\ out'[c][Len(out'[c])].type = "error"

\* C15: a step that answers an observer's message with an 'error', or
\* handles its history request, sends nothing to any other observer, detaches
\* nobody and stops no task.
ErrorStaysWithItsObserver ==
    [][\A c \in Conns :
          (GotError(c) \/ histReqs'[c] # histReqs[c]) =>
              /\ \A o \in Conns \ {c} : out'[o] = out[o]
              /\ UNCHANGED <<chan, cstate, group, log_task, cancelReq>>
      ]_vars

\* C15 witness: an observer has an 'error' message while another observer
\* of the same server is attached with its task running.
ErrorBesideRunningObserver ==
    \E c \in Conns :
        \E o \in Conns \ {c} :
            /\ \E i \in 1..Len(out[c]) : out[c][i].type = "error"
            /\ server_id[o] = server_id[c]
            /\ cstate[o] = "open"
            /\ log_task[o] \in RunningTask

\* C16: a connection is accepted, console or stats, only for a user who is
\* authenticated, a server that exists and an access check that returned
\* true; any other is in no group and has no task.
AcceptedOnlyWithAccess ==
    \A c \in Conns :
        /\ st_state[c] = "open" =>
               /\ is_authenticated(st_user[c])
               /\ get_server(st_server[c])
               /\ check_access(st_server[c], st_user[c])
        /\ st_state[c] = "rejected" =>
               /\ \A s \in UrlIds : c \notin st_group[s]
               /\ stats_task[c] = "none"
               /\ st_out[c] = <<>>

\* C17: the cached container handle is discarded when an operation on it
\* fails at the runtime (exec_run raises), so that the next operation
\* resolves the container again; and a resolution that failed caches nothing.
HandleDiscardedOnFailure ==
    [][\A c \in Conns :
          /\ (hpc[c] = "exec_run" /\ GotError(c)) => ~container'[c]
          /\ (~container[c] /\ container'[c]) => Resolvable(server_id[c])
      ]_vars

Severities == {"ERROR", "WARN", "DEBUG", "SUCCESS", "INFO"}

\* the marker occurs in the line, whatever the case of its letters
Occurs(line, marker) == \E i \in 1..Len(line) : Contains(Upper(line[i]), marker)

PriorityHolds(line, level) ==
    LET e == Occurs(line, "ERROR") \/ Occurs(line, "SEVERE")
        w == Occurs(line, "WARN")
        d == Occurs(line, "DEBUG")
        s == Occurs(line, "SUCCESS") \/ Occurs(line, "DONE")
    IN  /\ level \in Severities
        /\ e => level = "ERROR"
        /\ (~e /\ w) => level = "WARN"
        /\ (~e /\ ~w /\ d) => level = "DEBUG"
        /\ (~e /\ ~w /\ ~d /\ s) => level = "SUCCESS"
        /\ (~e /\ ~w /\ ~d /\ ~s) => level = "INFO"

\* C18: every line the task has classified, as stored in the log table and
\* as sent to the observer, carries the severity of the highest marker that
\* occurs in it: ERROR or SEVERE, then WARN, then DEBUG, then SUCCESS or
\* DONE, else INFO.
ClassifiedByPriority ==
    /\ \A s \in Servers :
           \A i \in 1..Len(hist[s]) :
               PriorityHolds(hist[s][i].message, hist[s][i].level)
    /\ \A c \in Conns :
           \A i \in 1..Len(out[c]) :
               out[c][i].src = "reader" =>
                   PriorityHolds(out[c][i].message, out[c][i].level)

\* C18 witness: the observer received a line in which WARN and DEBUG both
\* occur, classified WARN.
WarnAndDebugIsWarn ==
    \E i \in 1..Len(out["A"]) :
        /\ out["A"][i].src = "reader"
        /\ Occurs(out["A"][i].message, "WARN")
        /\ Occurs(out["A"][i].message, "DEBUG")
        /\ out["A"][i].level = "WARN"

\* C19: a sample sent with online = false has cpu_percent, memory_mb,
\* memory_limit_mb and memory_percent all 0, whichever step failed.
OfflineSamplesAreZero ==
    \A c \in Conns :
        \A i \in 1..Len(st_out[c]) :
            LET data == st_out[c][i].data IN
            ~data.online =>
                /\ data.cpu_percent = 0
                /\ data.memory_mb = 0
                /\ data.memory_limit_mb = 0
                /\ data.memory_percent = 0

\* C19 witness: an offline sample was sent for an answer whose CPU figure
\* had been computed, and was not 0, when the memory arithmetic raised.
OfflineAfterPartialFetch ==
    \E c \in Conns :
        \E i \in 1..Len(st_out[c]) :
            LET stats == st_out[c][i].from IN
            /\ ~st_out[c][i].data.online
            /\ stats.fail = "none"
            /\ StatsContainerFound(st_server[c])
            /\ stats.system - stats.presystem > 0
            /\ stats.total - stats.pretotal # 0
            /\ stats.limit = 0

SystemDelta(stats) == stats.system - stats.presystem

\* C20: for counters whose system delta is 0 or less, the CPU expression does
\* not raise and the sample carries cpu_percent 0, whatever the usage delta.
ZeroCpuWhenNoSystemDelta ==
    \A c \in Conns :
        \A i \in 1..Len(st_out[c]) :
            LET stats == st_out[c][i].from IN
            (stats.fail = "none" /\ SystemDelta(stats) <= 0) =>
                /\ ~cpu_percent(stats).raised
                /\ cpu_percent(stats).value = 0
                /\ st_out[c][i].data.cpu_percent = 0

\* C20 witness: an online sample with cpu_percent 0 was sent for counters
\* with a negative system delta and a usage delta that is not 0.
OnlineSampleWithoutSystemDelta ==
    \E c \in Conns :
        \E i \in 1..Len(st_out[c]) :
            LET stats == st_out[c][i].from IN
            /\ st_out[c][i].data.online
            /\ stats.fail = "none"
            /\ SystemDelta(stats) < 0
            /\ stats.total - stats.pretotal # 0
            /\ st_out[c][i].data.cpu_percent = 0

SampleFailed(c, stats) == stats.fail # "none" \/ ~StatsContainerFound(st_server[c])

\* C21: a tick whose resolution or fetch fails sends the offline sample and
\* the task goes on to its sleep and from there to the next tick; the
\* connection stays open.
SamplerSurvivesFailure ==
    [][\A c \in Conns :
          /\ (stats_task[c] = "fetch" /\ stats_task'[c] # "fetch" /\ ~st_cancel[c]) =>
                 /\ stats_task'[c] = "sleep"
                 /\ st_state'[c] = st_state[c]
                 /\ Len(st_out'[c]) = 1
                 /\ SampleFailed(c, st_out'[c][1].from) => ~st_out'[c][1].data.online
          /\ (stats_task[c] = "sleep" /\ stats_task'[c] # "sleep" /\ ~st_cancel[c]) =>
                 stats_task'[c] = "fetch"
      ]_vars

\* C21 witness: after an offline sample for a failed tick the open
\* connection's task is at the fetch of the next tick.
NextTickAfterFailure ==
    \E c \in Conns :
        /\ st_state[c] = "open"
        /\ stats_task[c] = "fetch"
        /\ Len(st_out[c]) = 1
        /\ st_out[c][1].from.fail # "none"
        /\ ~st_out[c][1].data.online

\* C22: once disconnect() has run on a stats connection, no sample is sent on
\* it any more, and its task ends.
NoSampleAfterClose ==
    /\ [][\A c \in Conns : st_state[c] = "closed" => st_out'[c] = st_out[c]]_vars
    /\ \A c \in Conns :
           (st_state[c] = "closed") ~> (stats_task[c] \notin {"fetch", "sleep"})

\* C23: whatever the number of observers of a server, an observer gets each
\* line the container wrote while it was attached at most once as a live
\* 'log' message.
LineDeliveredOnce ==
    \A c \in Conns :
        \A i, j \in 1..Len(out[c]) :
            (out[c][i].src = "reader" /\ out[c][j].src = "reader"
                /\ out[c][i].n > attachedAt[c]
                /\ out[c][i].n = out[c][j].n) => i = j

NewEvent(o, src, by) ==
    /\ Len(chan'[o]) > Len(chan[o])
    /\ chan'[o][Len(chan'[o])].src = src
    /\ chan'[o][Len(chan'[o])].by = by

\* C24: a line is broadcast only by a task that has come through the await
\* of its history write, with the severity computed for it; a command is
\* written to the container's input, then its history write is awaited, then
\* it is broadcast.
PersistBeforeBroadcast ==
    [][\A c \in Conns :
          /\ \A o \in Conns :
                 NewEvent(o, "reader", c) =>
                     /\ log_task[c] = "send"
                     /\ chan'[o][Len(chan'[o])].level
                            = parse_log_level(chan'[o][Len(chan'[o])].message)
          /\ (log_task'[c] = "send" /\ log_task[c] # "send") =>
                 /\ log_task[c] = "save"
                 /\ \/ hist' = hist
                    \/ hist' = [hist EXCEPT ![server_id[c]] =
                                  Append(@, [level |-> parse_log_level(TaskLine(c)),
                                             message |-> TaskLine(c)])]
          /\ (hpc'[c] = "save_log" /\ hpc[c] # "save_log") =>
                 /\ hpc[c] = "exec_run"
                 /\ stdin'[server_id[c]] = Append(stdin[server_id[c]], <<c, nmsg[c]>>)
          /\ (hpc'[c] = "group_send" /\ hpc[c] # "group_send") =>
                 /\ hpc[c] = "save_log"
                 /\ \/ hist' = hist
                    \/ hist' = [hist EXCEPT ![server_id[c]] =
                                  Append(@, [level |-> "COMMAND",
                                             message |-> CommandMessage(hcmd[c])])]
          /\ (\E o \in Conns : NewEvent(o, "command", c)) => hpc[c] = "group_send"
      ]_vars

\* C24 witness: a task was cancelled after its history write; the line is
\* in the log table and no observer has it or will get it.
PersistedNotDelivered ==
    \E c \in Conns :
        /\ log_task[c] = "cancelled"
        /\ rpos[c] = 1
        /\ Len(hist[server_id[c]]) = 1
        /\ nmsg[c] = 0
        /\ \A o \in Conns \ {c} : cstate[o] = "new"
        /\ \A o \in Conns :
               /\ \A i \in 1..Len(out[o]) : out[o][i].src # "reader"
               /\ \A i \in 1..Len(chan[o]) : chan[o][i].src # "reader"

\* C25: a get_history request sends the requester, and nobody else, at most
\* HistoryLimit 'log' messages, the rows of its server from the most recent
\* backwards, and no 'error'; the connection, the group and the tasks stay
\* as they are.
HistoryToRequesterOnly ==
    [][\A c \in Conns :
          histReqs'[c] # histReqs[c] =>
              LET s == server_id[c]
                  n == Len(hist[s])
                  k == Len(out'[c]) - Len(out[c])
              IN  /\ k >= 0
                  /\ k <= HistoryLimit
                  /\ k <= n
                  /\ SubSeq(out'[c], 1, Len(out[c])) = out[c]
                  /\ \A i \in 1..k :
                         /\ out'[c][Len(out[c]) + i].type = "log"
                         /\ out'[c][Len(out[c]) + i].message = hist[s][n - i + 1].message
                         /\ out'[c][Len(out[c]) + i].level = hist[s][n - i + 1].level
                  /\ \A o \in Conns \ {c} : out'[o] = out[o]
                  /\ UNCHANGED <<chan, cstate, group, log_task, cancelReq, hist>>
      ]_vars

\* C25 witness: of a table of more than HistoryLimit rows the requester got
\* HistoryLimit messages, the most recent row first, and the other observer
\* of the server none.
LimitedHistoryReceived ==
    \E c \in Conns :
        \E o \in Conns \ {c} :
            /\ cstate[o] = "open" /\ server_id[o] = server_id[c]
            /\ Len(hist[server_id[c]]) > HistoryLimit
            /\ Len(out[c]) = HistoryLimit
            /\ IsHistory(out[c][1])
            /\ out[c][1].message = hist[server_id[c]][Len(hist[server_id[c]])].message
            /\ out[o] = <<>>

\* the step in which the command of c fails: get_container() resolved no
\* handle, or exec_run was called on a container that does not run
CommandFails(c) ==
    \/ /\ submitted' # submitted
       /\ nmsg'[c] # nmsg[c]
       /\ ~container'[c]
    \/ /\ hpc[c] = "exec_run"
       /\ hpc'[c] # "exec_run"
       /\ cont[server_id[c]] # "running"

\* C26: a command that fails, for no handle or for exec_run raising, ends
\* the handler with exactly one 'error' to the submitter: nothing is written
\* to the input, no row is stored, nothing is broadcast or sent to another
\* observer, and the tasks and the groups stay as they are.
FailedCommandLeavesNoTrace ==
    [][\A c \in Conns :
          CommandFails(c) =>
              /\ Len(out'[c]) = Len(out[c]) + 1
              /\ SubSeq(out'[c], 1, Len(out[c])) = out[c]
              /\ out'[c][Len(out'[c])].type = "error"
              /\ \A o \in Conns \ {c} : out'[o] = out[o]
              /\ hpc'[c] = "idle"
              /\ UNCHANGED <<stdin, hist, chan, bcast, group, cstate, log_task, cancelReq>>
      ]_vars

\* C26 witness: exec_run raised for an attached observer whose task runs:
\* it has the one 'error', it is in the group, and no command was stored,
\* written or broadcast.
FailedCommandWhileStreaming ==
    \E c \in Conns :
        /\ cstate[c] = "open"
        /\ c \in group[server_id[c]]
        /\ log_task[c] \in RunningTask
        /\ container[c]
        /\ hpc[c] = "idle"
        /\ \E i \in 1..Len(submitted) : submitted[i].by = c
        /\ Cardinality({i \in 1..Len(out[c]) : out[c][i].type = "error"}) = 1
        /\ bcast = {}
        /\ stdin[server_id[c]] = <<>>
        /\ \A i \in 1..Len(hist[server_id[c]]) : hist[server_id[c]][i].level # "COMMAND"

\* C27: the task of a session is created by start_log_stream() during the
\* attach and by nothing else: a session without a task gets one in no other
\* step, and a task that ended stays ended.
TaskStartedOnlyOnAttach ==
    [][\A c \in Conns :
          /\ (log_task[c] = "none" /\ log_task'[c] # "none") =>
                 (hpc[c] = "start_log_stream" /\ nmsg[c] = 0 /\ log_task'[c] = "logs")
          /\ (log_task[c] # "logs" /\ log_task'[c] = "logs") => log_task[c] = "none"
          /\ log_task[c] \in DoneTask => log_task'[c] = log_task[c]
      ]_vars

\* C27 witness: the attach found no container, the container runs now and a
\* command of the session was written and broadcast, and the session still
\* has no task.
NoTaskAfterLateStart ==
    \E c \in Conns :
        /\ cstate[c] = "open"
        /\ attach[c] = "notfound"
        /\ cont[server_id[c]] = "running"
        /\ container[c]
        /\ \E b \in bcast : b.by = c
        /\ \E i \in 1..Len(stdin[server_id[c]]) : stdin[server_id[c]][i][1] = c
        /\ log_task[c] = "none"

\* the event or message m, arrived at the observer c in this step, comes
\* from the server of c: a line is the line of that number of the server's
\* container, read by a task of a session of the server; a command was
\* written to the input of the server's container for a session of the server
FromOwnServer(c, m) ==
    LET s == server_id'[c] IN
    /\ m.src = "reader" =>
           /\ server_id'[m.by] = s
           /\ m.n \in 1..Len(clog'[s])
           /\ m.message = Strip(clog'[s][m.n].raw)
    /\ m.src = "command" =>
           /\ server_id'[m.by] = s
           /\ \E i \in 1..Len(stdin'[s]) : stdin'[s][i] = <<m.by, m.n>>

\* the event that joined the channel of c, and the message that was sent to
\* c, come from the server of c
Isolated ==
    \A c \in Conns :
        /\ Len(chan'[c]) > Len(chan[c]) => FromOwnServer(c, chan'[c][Len(chan'[c])])
        /\ Len(out'[c]) > Len(out[c]) => FromOwnServer(c, out'[c][Len(out'[c])])

\* C28: every event queued for an observer, and every message sent to it,
\* comes from its own server, and the step in which an observer detaches or
\* fails leaves the tasks of the sessions of every other server as they are.
ServersAreIsolated ==
    [][/\ Isolated
       /\ \A o \in Conns :
              (cstate[o] = "open" /\ cstate'[o] \in {"closed", "failed"}) =>
                  \A c \in Conns :
                      server_id[c] # server_id[o] =>
                          /\ log_task'[c] = log_task[c]
                          /\ cancelReq'[c] = cancelReq[c]
      ]_vars

\* C28 witness: an observer of one server has received a line of it, while
\* an observer that was attached to the other server has detached without
\* receiving a line, and the task of the first runs on, not cancelled.
OtherServerDetached ==
    \E c \in Conns :
        \E o \in Conns \ {c} :
            /\ cstate[c] = "open"
            /\ log_task[c] \in RunningTask /\ ~cancelReq[c]
            /\ \E i \in 1..Len(out[c]) : out[c][i].src = "reader"
            /\ cstate[o] = "closed"
            /\ attach[o] \in {"ok", "notfound"}
            /\ server_id[o] \in Servers \ {server_id[c]}
            /\ \A i \in 1..Len(out[o]) : out[o][i].type # "log"

\* C29 as claimed: every sample sent has cpu_percent and memory_percent of 0
\* or more, whatever the counters, a usage total below the previous one with
\* a positive system delta included.
SamplesNotNegative ==
    \A c \in Conns :
        \A i \in 1..Len(st_out[c]) :
            /\ st_out[c][i].data.cpu_percent >= 0
            /\ st_out[c][i].data.memory_percent >= 0

\* C30: counters fetched with a memory limit of 0 give the offline sample,
\* all numbers 0, an online sample comes only from a limit that is not 0,
\* and the task of the open connection goes on sampling.
ZeroLimitGivesOffline ==
    \A c \in Conns :
        \A i \in 1..Len(st_out[c]) :
            LET stats == st_out[c][i].from
                data == st_out[c][i].data
            IN  /\ (stats.fail = "none" /\ stats.limit = 0) =>
                       /\ data = OfflineSample
                       /\ st_state[c] = "open" => stats_task[c] \in {"fetch", "sleep"}
                /\ data.online => stats.limit # 0

\* C30 witness: the container was found and its counters came with a limit
\* of 0, the offline sample was sent, and the task of the open connection
\* is at the fetch of the next tick.
SamplingAfterZeroLimit ==
    \E c \in Conns :
        /\ st_state[c] = "open"
        /\ stats_task[c] = "fetch"
        /\ Len(st_out[c]) = 1
        /\ st_out[c][1].from.fail = "none"
        /\ st_out[c][1].from.limit = 0
        /\ StatsContainerFound(st_server[c])
        /\ st_out[c][1].data = OfflineSample

====
